---- MODULE Spec2Model ----
(***************************************************************************)
(* A model of plugins/reposync.py (the dnf "reposync" command).            *)
(*                                                                         *)
(* Strings are sequences of one-character strings, so that the string      *)
(* operations the code relies on (startswith, endswith, split on "/")      *)
(* are computed on characters, as Python computes them.                    *)
(***************************************************************************)
EXTENDS Integers, Sequences, FiniteSets, TLC

VARIABLES
    opts,       \* self.opts: the parsed command line
    sack,       \* base.sack: the packages of the package index
    comps_fn,   \* repo.metadata._comps_fn: repo id -> a comps file is published
    conf,       \* the repository configuration: repo id -> enabled flag
    enabled,    \* base.repos: repo id -> enabled flag
    files,      \* the regular files of the local tree (absolute paths)
    dirs,       \* the directories of the local tree (absolute paths)
    pc,         \* where the command is: "configure", "run", "done", "error"
    todo,       \* run(): the enabled repositories still to be iterated
    stage,      \* run(): the next step for the repository at Head(todo)
    pkglist,    \* download_packages(): the query get_pkglist returned
    err,        \* the exception that ended the command, or NoError
    log,        \* what the current run has done, stage by stage
    runs,       \* how many runs of the command have ended
    prev,       \* the local tree as the previous run left it
    ret         \* the value returned by the last direct call of a method

vars == <<opts, sack, comps_fn, conf, enabled, files, dirs, pc, todo, stage, pkglist, err,
          log, runs, prev, ret>>

----------------------------------------------------------------------------
(* Strings *)

SLASH == "/"
DOT == "."

\* s.startswith(t)
startswith(s, t) ==
    /\ Len(t) <= Len(s)
    /\ SubSeq(s, 1, Len(t)) = t

\* s.endswith(t)
endswith(s, t) ==
    /\ Len(t) <= Len(s)
    /\ SubSeq(s, Len(s) - Len(t) + 1, Len(s)) = t

RECURSIVE lstrip(_, _)
\* s.lstrip(c) for a one-character c
lstrip(s, c) ==
    IF s # <<>> /\ Head(s) = c THEN lstrip(Tail(s), c) ELSE s

RECURSIVE split_from(_, _, _)
\* the components of s from position start on, the scan being at position i
split_from(s, i, start) ==
    IF i > Len(s) THEN <<SubSeq(s, start, Len(s))>>
    ELSE IF s[i] = SLASH
    THEN <<SubSeq(s, start, i - 1)>> \o split_from(s, i + 1, i + 1)
    ELSE split_from(s, i + 1, start)

\* s.split('/'): the components between the slashes, empty ones included
split(s) == split_from(s, 1, 1)

RECURSIVE joinslash(_)
\* '/'.join(comps)
joinslash(comps) ==
    IF comps = <<>> THEN <<>>
    ELSE IF Len(comps) = 1 THEN comps[1]
    ELSE comps[1] \o <<SLASH>> \o joinslash(Tail(comps))

----------------------------------------------------------------------------
(* os.path (posixpath) *)

\* os.path.join(a, b)
join(a, b) ==
    IF startswith(b, <<SLASH>>) THEN b
    ELSE IF a = <<>> \/ endswith(a, <<SLASH>>) THEN a \o b
    ELSE a \o <<SLASH>> \o b

\* os.path.join(a, b, c)
join3(a, b, c) == join(join(a, b), c)

DOTDOT == <<DOT, DOT>>

RECURSIVE collapse(_, _, _)
\* the loop of posixpath.normpath over the components
collapse(comps, new_comps, initial_slashes) ==
    IF comps = <<>> THEN new_comps
    ELSE LET comp == Head(comps)
             rest == Tail(comps)
         IN  IF comp = <<>> \/ comp = <<DOT>>
             THEN collapse(rest, new_comps, initial_slashes)
             ELSE IF \/ comp # DOTDOT
                     \/ (initial_slashes = 0 /\ new_comps = <<>>)
                     \/ (new_comps # <<>> /\ new_comps[Len(new_comps)] = DOTDOT)
             THEN collapse(rest, Append(new_comps, comp), initial_slashes)
             ELSE IF new_comps # <<>>
             THEN collapse(rest, SubSeq(new_comps, 1, Len(new_comps) - 1),
                           initial_slashes)
             ELSE collapse(rest, new_comps, initial_slashes)

\* os.path.normpath(path)
normpath(path) ==
    IF path = <<>> THEN <<DOT>>
    ELSE LET initial_slashes ==
                 IF ~startswith(path, <<SLASH>>) THEN 0
                 ELSE IF /\ startswith(path, <<SLASH, SLASH>>)
                         /\ ~startswith(path, <<SLASH, SLASH, SLASH>>)
                 THEN 2
                 ELSE 1
             body == joinslash(collapse(split(path), <<>>, initial_slashes))
             out == (IF initial_slashes = 2 THEN <<SLASH, SLASH>>
                     ELSE IF initial_slashes = 1 THEN <<SLASH>>
                     ELSE <<>>) \o body
         IN  IF out = <<>> THEN <<DOT>> ELSE out

RECURSIVE rfind_slash(_, _)
\* the index of the last slash of p at or before position k, 0 when none
rfind_slash(p, k) ==
    IF k = 0 THEN 0
    ELSE IF p[k] = SLASH THEN k
    ELSE rfind_slash(p, k - 1)

\* p.rfind('/') + 1
lastslash(p) == rfind_slash(p, Len(p))

RECURSIVE rstrip_slash(_)
\* s.rstrip('/')
rstrip_slash(s) ==
    IF s # <<>> /\ s[Len(s)] = SLASH
    THEN rstrip_slash(SubSeq(s, 1, Len(s) - 1))
    ELSE s

\* os.path.basename(p)
basename(p) == SubSeq(p, lastslash(p) + 1, Len(p))

\* os.path.dirname(p)
dirname(p) ==
    LET head == SubSeq(p, 1, lastslash(p))
    IN  IF head # <<>> /\ rstrip_slash(head) # <<>>
        THEN rstrip_slash(head)
        ELSE head

----------------------------------------------------------------------------
(* Paths of the local tree *)

\* os.getcwd(): the directory the command is started in
cwd == <<"/", "w">>

\* _pkgdir(intermediate, target)
pkgdir(intermediate, target) ==
    normpath(join3(cwd, intermediate, target))

\* RepoSyncCommand.repo_target(repo), repo given by its id. The memo
\* self._repo_target returns what this computes: cwd and opts do not change
\* while the command runs.
repo_target(repo) ==
    pkgdir(IF opts.destdir # <<>> THEN opts.destdir ELSE opts.download_path,
           repo)

\* the outcome of a call that may raise dnf.exceptions.Error
Returned(path) == [raised |-> FALSE, path |-> path]
Raised(path) == [raised |-> TRUE, path |-> path]

\* RepoSyncCommand.pkg_download_path(pkg)
pkg_download_path(pkg) ==
    LET target == repo_target(pkg.repo)
        path == normpath(join(target, pkg.location))
    IN  IF ~startswith(path, target) THEN Raised(path) ELSE Returned(path)

\* the directories on the way from the root to dir, dir included:
\* what dnf.util.ensure_dir(dir) (os.makedirs) leaves existing
RECURSIVE makedirs(_)
makedirs(dir) ==
    IF dir = <<>> \/ dir = <<SLASH>> \/ dirname(dir) = dir THEN {}
    ELSE {dir} \cup makedirs(dirname(dir))

----------------------------------------------------------------------------
(* The package index *)

\* the reponame of installed packages (hawkey.SYSTEM_REPO_NAME)
SYSTEM_REPO_NAME == <<"@">>

\* Query.available()
available(query) == {pkg \in query : pkg.repo # SYSTEM_REPO_NAME}

\* Query.filterm(reponame=id)
filter_reponame(query, id) == {pkg \in query : pkg.repo = id}

\* latest() were it per name only
latest_per_name(query) ==
    {pkg \in query :
        \A other \in query : other.name = pkg.name => other.evr <= pkg.evr}

\* Query.latest(): the highest version of every name and architecture
latest(query) ==
    {pkg \in query :
        \A other \in query :
            (other.name = pkg.name /\ other.arch = pkg.arch)
                => other.evr <= pkg.evr}

\* Query.filterm(arch=arches)
filter_arch(query, arches) == {pkg \in query : pkg.arch \in arches}

\* get_pkglist(repo) were the architecture list tested before source mode
get_pkglist_arches_first(repo) ==
    LET q0 == filter_reponame(available(sack), repo)
        q1 == IF opts.newest_only THEN latest(q0) ELSE q0
    IN  IF opts.arches # {} THEN filter_arch(q1, opts.arches)
        ELSE IF opts.source THEN filter_arch(q1, {"src"})
        ELSE q1

\* RepoSyncCommand.get_pkglist(repo), repo given by its id
get_pkglist(repo) ==
    LET q0 == filter_reponame(available(sack), repo)
        q1 == IF opts.newest_only THEN latest(q0) ELSE q0
    IN  IF opts.source THEN filter_arch(q1, {"src"})
        ELSE IF opts.arches # {} THEN filter_arch(q1, opts.arches)
        ELSE q1

RECURSIVE in_order(_)
\* the packages of a query in the order its iteration yields them (by id)
in_order(query) ==
    IF query = {} THEN <<>>
    ELSE LET first == CHOOSE pkg \in query :
                          \A other \in query : pkg.id <= other.id
         IN  <<first>> \o in_order(query \ {first})

\* the elements of a sequence
Range(seq) == {seq[i] : i \in 1..Len(seq)}

\* base._select_remote_pkgs(pkglist): the packages to fetch
remote_pkgs(list) == SelectSeq(list, LAMBDA pkg : ~pkg.local)

\* base._select_remote_pkgs(pkglist): the packages of local repositories
local_repository_pkgs(list) == SelectSeq(list, LAMBDA pkg : pkg.local)

----------------------------------------------------------------------------
(* The repositories, packages and trees the runs are checked on *)

R == <<"r">>
RX == <<"r", "x">>
\* the source repository of r
RS == <<"r", "-", "s", "o", "u", "r", "c", "e">>

\* base.repos in the order iter_enabled() yields them
RepoOrder == <<R, RX, RS>>

RPM == <<".", "r", "p", "m">>

Pkg(id, repo, name, evr, arch, location, local) ==
    [id |-> id, repo |-> repo, name |-> name, evr |-> evr, arch |-> arch,
     location |-> location, local |-> local]

PkgA == Pkg(1, R, "a", 1, "x86_64", <<"a">> \o RPM, FALSE)
PkgB == Pkg(2, R, "b", 1, "x86_64", <<"s", "/", "b">> \o RPM, FALSE)
PkgC == Pkg(3, R, "c", 1, "noarch", <<"c">> \o RPM, TRUE)
PkgD == Pkg(4, R, "d", 1, "noarch", <<"d">> \o RPM, TRUE)
PkgE == Pkg(5, R, "e", 1, "noarch", <<".", ".", "/", "e">> \o RPM, TRUE)
PkgF == Pkg(6, R, "f", 1, "x86_64", <<".", ".", "/", "f">> \o RPM, FALSE)
PkgXA == Pkg(7, RX, "a", 1, "x86_64", <<"a">> \o RPM, FALSE)
PkgSA == Pkg(8, RS, "a", 1, "src", <<"a", ".", "s">> \o RPM, FALSE)

GoodSack == {PkgA, PkgB, PkgC, PkgD, PkgXA, PkgSA}

\* the package indexes of the runs: a well-formed one, and two that publish
\* a location that leaves the repository
RunSacks == {GoodSack, GoodSack \cup {PkgE}, GoodSack \cup {PkgF}}

\* the absolute path of a file of the tree
At(repo, name) == cwd \o <<SLASH>> \o repo \o <<SLASH>> \o name

EmptyTree == [files |-> {}, dirs |-> {cwd}]

\* a tree a previous mirror left: packages still published, packages no
\* longer published, a file that is no package, a directory named like one
OldTree ==
    [files |-> {At(R, <<"a">> \o RPM), At(R, <<"z">> \o RPM),
                At(R, <<"r", "p", "m">>), At(RX, <<"z">> \o RPM)},
     dirs |-> {cwd, cwd \o <<SLASH>> \o R, cwd \o <<SLASH>> \o RX,
               At(R, <<"k">> \o RPM)}]

RunTrees == {EmptyTree, OldTree}

\* set_argparser: the defaults of the options
DefaultOpts ==
    [arches |-> {}, delete |-> FALSE, downloadcomps |-> FALSE,
     download_metadata |-> FALSE, newest_only |-> FALSE,
     download_path |-> <<".", "/">>, source |-> FALSE, destdir |-> <<>>,
     repo |-> <<>>]

\* the --repo lists of the runs; <<"q">> is no configured repository
RunRepoLists == {<<RX>>, <<R, <<"q">>>>, <<<<"q">>, R>>}

RunOpts ==
    {[DefaultOpts EXCEPT !.delete = d, !.downloadcomps = c,
                         !.download_metadata = m] :
        d \in BOOLEAN, c \in BOOLEAN, m \in BOOLEAN}
    \cup {[DefaultOpts EXCEPT !.repo = l, !.delete = d] :
            l \in RunRepoLists, d \in BOOLEAN}
    \cup {[DefaultOpts EXCEPT !.repo = <<R>>, !.source = TRUE, !.delete = d] :
            d \in BOOLEAN}

\* which repositories publish a comps file
RunComps == {[r \in Range(RepoOrder) |-> FALSE],
             [r \in Range(RepoOrder) |-> r = R]}

\* the repository configuration: which repositories are enabled; the
\* source repository is configured disabled
RunConfs == {[r \in Range(RepoOrder) |-> r \in {R, RX}],
             [r \in Range(RepoOrder) |-> r = R]}

----------------------------------------------------------------------------
(* The command *)

NoError == "None"
NoRet == [call |-> "none"]

\* one stage of a run, as the log keeps it: the repository, the stage, the
\* exception it raised, the packages it fetched and copied, the files it
\* unlinked, the files before it, and the operations the environment failed
Entry(repo, st, e, fetched, copied, deleted, before, failed) ==
    [repo |-> repo, stage |-> st, err |-> e, fetched |-> fetched,
     copied |-> copied, deleted |-> deleted, before |-> before,
     failed |-> failed]

\* RepoDict.iter_enabled()
iter_enabled(en) == SelectSeq(RepoOrder, LAMBDA r : en[r])

\* RepoDict.enable_source_repos(): the name of the source repository of id
source_name(id) ==
    IF endswith(id, <<"-", "r", "p", "m", "s">>)
    THEN SubSeq(id, 1, Len(id) - 5)
             \o <<"-", "s", "o", "u", "r", "c", "e", "-", "r", "p", "m", "s">>
    ELSE id \o <<"-", "s", "o", "u", "r", "c", "e">>

\* RepoDict.enable_source_repos()
enable_source_repos(en) ==
    [r \in DOMAIN en |->
        en[r] \/ \E e \in DOMAIN en : en[e] /\ source_name(e) = r]

\* a configure() that leaves the enabled repositories enabled
disable_none(en) == en

\* repos.all().disable()
disable_all(en) == [r \in DOMAIN en |-> FALSE]

RECURSIVE enable_named_skip_unknown(_, _)
\* a loop over self.opts.repo that passes over the ids that are no key of
\* base.repos
enable_named_skip_unknown(ids, en) ==
    IF ids = <<>> THEN [raised |-> FALSE, enabled |-> en]
    ELSE IF Head(ids) \notin DOMAIN en
    THEN enable_named_skip_unknown(Tail(ids), en)
    ELSE enable_named_skip_unknown(Tail(ids), [en EXCEPT ![Head(ids)] = TRUE])

RECURSIVE enable_named(_, _)
\* configure(): the loop over self.opts.repo, from the flags en on;
\* raised when an id is no key of base.repos
enable_named(ids, en) ==
    IF ids = <<>> THEN [raised |-> FALSE, enabled |-> en]
    ELSE IF Head(ids) \notin DOMAIN en THEN [raised |-> TRUE, enabled |-> en]
    ELSE enable_named(Tail(ids), [en EXCEPT ![Head(ids)] = TRUE])

\* a run() that asks for the comps file before the metadata
first_stage_comps_first ==
    IF opts.downloadcomps THEN "comps"
    ELSE IF opts.download_metadata THEN "metadata"
    ELSE "packages"

\* run(): the first stage of a repository
first_stage ==
    IF opts.download_metadata THEN "metadata"
    ELSE IF opts.downloadcomps THEN "comps"
    ELSE "packages"

\* RepoSyncCommand.configure()
Configure ==
    /\ pc = "configure"
    /\ LET named == IF opts.repo # <<>>
                    THEN enable_named(opts.repo, disable_all(enabled))
                    ELSE [raised |-> FALSE, enabled |-> enabled]
       IN  IF named.raised
           THEN /\ enabled' = named.enabled
                /\ pc' = "error"
                /\ err' = "CliError"
                /\ runs' = runs + 1
                /\ UNCHANGED <<todo, stage>>
           ELSE /\ enabled' = IF opts.source
                              THEN enable_source_repos(named.enabled)
                              ELSE named.enabled
                /\ pc' = "run"
                /\ todo' = iter_enabled(enabled')
                /\ stage' = first_stage
                /\ UNCHANGED <<err, runs>>
    /\ UNCHANGED <<opts, sack, comps_fn, conf, files, dirs, pkglist, log, prev, ret>>

\* a download_packages() that goes on to the deletion when e is raised
Raise_then_delete(e) ==
    /\ stage' = "delete"
    /\ UNCHANGED <<pc, err, runs, todo>>

\* an exception leaves run(): the command ends
Raise(e) ==
    /\ pc' = "error"
    /\ err' = e
    /\ runs' = runs + 1
    /\ UNCHANGED <<todo, stage>>

\* run(): on to the stage st of the same repository
Goto(st) ==
    /\ stage' = st
    /\ UNCHANGED <<pc, err, runs, todo>>

\* run(): on to the next enabled repository
NextRepo ==
    /\ todo' = Tail(todo)
    /\ stage' = first_stage
    /\ UNCHANGED <<pc, err, runs>>

REPODATA == <<"r", "e", "p", "o", "d", "a", "t", "a">>
REPOMD == <<"r", "e", "p", "o", "m", "d", ".", "x", "m", "l">>
COMPS == <<"c", "o", "m", "p", "s", ".", "x", "m", "l">>

\* RepoSyncCommand.download_metadata(repo): repo._repo.downloadMetadata
\* writes the metadata under the target directory, or raises
DownloadMetadata ==
    /\ pc = "run" /\ todo # <<>> /\ stage = "metadata"
    /\ \E repo \in {Head(todo)} :
       \E repodata \in {join(repo_target(repo), REPODATA)} :
       \E ok \in BOOLEAN :
           IF ok
           THEN /\ dirs' = dirs \cup makedirs(repodata)
                /\ files' = files \cup {join(repodata, REPOMD)}
                /\ log' = Append(log, Entry(repo, "metadata", NoError,
                                            {}, {}, {}, files, {}))
                /\ Goto(IF opts.downloadcomps THEN "comps" ELSE "packages")
           ELSE /\ log' = Append(log, Entry(repo, "metadata", "RepoError",
                                            {}, {}, {}, files, {}))
                /\ Raise("RepoError")
                /\ UNCHANGED <<files, dirs>>
    /\ UNCHANGED <<opts, sack, comps_fn, conf, enabled, pkglist, prev, ret>>

\* RepoSyncCommand.getcomps(repo): nothing when the repository publishes
\* no comps file; else decompress writes comps.xml into the target
\* directory, which it does not create, or raises
GetComps ==
    /\ pc = "run" /\ todo # <<>> /\ stage = "comps"
    /\ \E repo \in {Head(todo)} :
       \E dest \in {join(repo_target(repo), COMPS)} :
       \E ok \in IF comps_fn[repo] THEN BOOLEAN ELSE {TRUE} :
           IF ~comps_fn[repo]
           THEN /\ log' = Append(log, Entry(repo, "comps", NoError,
                                            {}, {}, {}, files, {}))
                /\ Goto("packages")
                /\ UNCHANGED <<files, dirs>>
           ELSE IF ok /\ dirname(dest) \in dirs
           THEN /\ files' = files \cup {dest}
                /\ log' = Append(log, Entry(repo, "comps", NoError,
                                            {}, {}, {}, files, {}))
                /\ Goto("packages")
                /\ UNCHANGED dirs
           ELSE /\ log' = Append(log, Entry(repo, "comps", "MiscError",
                                            {}, {}, {}, files, {}))
                /\ Raise("MiscError")
                /\ UNCHANGED <<files, dirs>>
    /\ UNCHANGED <<opts, sack, comps_fn, conf, enabled, pkglist, prev, ret>>

\* pkg.repo.pkgdir: where a local repository keeps its packages
repo_pkgdir(repo) == <<SLASH, "c", SLASH>> \o repo

\* a payload whose destination is the target directory of the repository,
\* one directory for all the packages of the batch
RPMPayloadLocation_shared_dir(pkg, pkg_location) ==
    [pkg |-> pkg,
     raised |-> pkg_location.raised,
     package_dir |-> repo_target(pkg.repo),
     ensured |-> makedirs(repo_target(pkg.repo)),
     file |-> join(repo_target(pkg.repo), basename(pkg.location))]

\* RPMPayloadLocation(pkg, progress, pkg_location), with what
\* _target_params hands the transfer layer: 'dest' is package_dir, after
\* ensure_dir(package_dir), and the file is the name of the package's
\* location in that directory. raised: pkg_download_path(pkg) raised and
\* no payload was built.
RPMPayloadLocation(pkg, pkg_location) ==
    [pkg |-> pkg,
     raised |-> pkg_location.raised,
     package_dir |-> dirname(pkg_location.path),
     ensured |-> makedirs(dirname(pkg_location.path)),
     file |-> join(dirname(pkg_location.path), basename(pkg.location))]

RECURSIVE payloads_of(_)
\* download_packages(): [RPMPayloadLocation(pkg, progress,
\* self.pkg_download_path(pkg)) for pkg in remote_pkgs]
payloads_of(pkgs) ==
    IF pkgs = <<>> THEN <<>>
    ELSE <<RPMPayloadLocation(Head(pkgs), pkg_download_path(Head(pkgs)))>>
             \o payloads_of(Tail(pkgs))

\* download_packages(), one turn of the loop over local_repository_pkgs:
\* pkg_path, target_dir, the directories ensure_dir(target_dir) leaves and
\* the file shutil.copy(pkg_path, target_dir) writes. raised:
\* pkg_download_path(pkg) raised.
local_copy(pkg, pkg_location) ==
    [pkg |-> pkg,
     raised |-> pkg_location.raised,
     pkg_path |-> join(repo_pkgdir(pkg.repo), lstrip(pkg.location, SLASH)),
     target_dir |-> dirname(pkg_location.path),
     ensured |-> makedirs(dirname(pkg_location.path)),
     file |-> join(dirname(pkg_location.path),
                   basename(join(repo_pkgdir(pkg.repo),
                                 lstrip(pkg.location, SLASH))))]

RECURSIVE copies_of(_)
\* what the turns of the loop over pkgs compute. pkg_download_path reads
\* nothing a stage changes: its outcome is the same wherever in the stage
\* the call is made.
copies_of(pkgs) ==
    IF pkgs = <<>> THEN <<>>
    ELSE <<local_copy(Head(pkgs), pkg_download_path(Head(pkgs)))>>
             \o copies_of(Tail(pkgs))

\* download_packages(), the remote packages: every payload is built, which
\* computes every destination, before base._download_remote_payloads
\* fetches them. The transfer layer skips a file that is there already,
\* fetches the others, and raises at the end when the fetch of one of them
\* (tfail) failed.
fetch_remote(payloads, tfail, fs, ds) ==
    IF \E p \in Range(payloads) : p.raised
    THEN [files |-> fs, dirs |-> ds, fetched |-> {}, err |-> "Error"]
    ELSE [files |-> fs \cup {p.file : p \in {q \in Range(payloads) :
                                                q.pkg \notin tfail}},
          dirs |-> ds \cup UNION {p.ensured : p \in Range(payloads)},
          fetched |-> {p.pkg : p \in {q \in Range(payloads) :
                                         /\ q.pkg \notin tfail
                                         /\ q.file \notin fs}},
          err |-> IF tfail # {} THEN "DownloadError" ELSE NoError]

RECURSIVE copy_local(_, _, _, _, _)
\* download_packages(), the loop over local_repository_pkgs; ensure_dir or
\* shutil.copy raises OSError for the packages of cfail
copy_local(copies, cfail, fs, ds, copied) ==
    IF copies = <<>>
    THEN [files |-> fs, dirs |-> ds, copied |-> copied, err |-> NoError]
    ELSE IF Head(copies).raised
    THEN [files |-> fs, dirs |-> ds, copied |-> copied, err |-> "Error"]
    ELSE IF Head(copies).pkg \in cfail
    THEN [files |-> fs, dirs |-> ds, copied |-> copied, err |-> "OSError"]
    ELSE copy_local(Tail(copies), cfail,
                    fs \cup {Head(copies).file},
                    ds \cup Head(copies).ensured,
                    copied \cup {Head(copies).pkg})

\* the remote packages the transfer layer has to fetch: their file is not
\* in the tree yet
to_fetch(payloads) ==
    {p.pkg : p \in {q \in Range(payloads) : q.raised \/ q.file \notin files}}

\* download_packages(repo) up to the deletion, the fetches of tfail and the
\* copies of cfail failing: the tree it leaves, the packages it fetched and
\* copied, and the exception it raised
download_packages(payloads, copies, tfail, cfail) ==
    LET got == IF payloads # <<>>
               THEN fetch_remote(payloads, tfail, files, dirs)
               ELSE [files |-> files, dirs |-> dirs, fetched |-> {},
                     err |-> NoError]
        out == IF got.err = NoError /\ copies # <<>>
               THEN copy_local(copies, cfail, got.files, got.dirs, {})
               ELSE [files |-> got.files, dirs |-> got.dirs, copied |-> {},
                     err |-> got.err]
    IN  [files |-> out.files, dirs |-> out.dirs, fetched |-> got.fetched,
         copied |-> out.copied, err |-> out.err]

\* RepoSyncCommand.download_packages(repo), up to the deletion. The
\* environment decides which fetches (tfail) and which copies (cfail) fail;
\* the copies are reached only when the fetch raised nothing.
DownloadPackages ==
    /\ pc = "run" /\ todo # <<>> /\ stage = "packages"
    /\ \E list \in {in_order(get_pkglist(Head(todo)))} :
       \E payloads \in {payloads_of(remote_pkgs(list))},
          copies \in {copies_of(local_repository_pkgs(list))} :
       \E tfail \in SUBSET to_fetch(payloads) :
       \E cfail \in IF tfail = {} /\ \A p \in Range(payloads) : ~p.raised
                    THEN SUBSET {c.pkg : c \in Range(copies)}
                    ELSE {{}} :
       \E out \in {download_packages(payloads, copies, tfail, cfail)} :
           /\ files' = out.files
           /\ dirs' = out.dirs
           /\ pkglist' = list
           /\ log' = Append(log, Entry(Head(todo), "packages", out.err,
                                       out.fetched, out.copied, {}, files,
                                       tfail \cup cfail))
           /\ IF out.err # NoError THEN Raise(out.err)
              ELSE IF opts.delete THEN Goto("delete")
              ELSE NextRepo
    /\ UNCHANGED <<opts, sack, comps_fn, conf, enabled, prev, ret>>

\* os.listdir(dir)
listdir(dir) == {basename(p) : p \in {q \in files \cup dirs : dirname(q) = dir}}

\* old_in were the name of the file not tested
old_in_any_name(repo, target, download_map) ==
    IF target \in dirs
    THEN {path \in {join(target, filename) : filename \in listdir(target)} :
              /\ path \in files
              /\ <<repo, basename(path)>> \notin download_map}
    ELSE {}

\* delete_old_local_packages(): the files of the directory target that the
\* loop over os.listdir(target) reaches os.unlink with, for repo
old_in(repo, target, download_map) ==
    IF target \in dirs
    THEN {path \in {join(target, filename) :
                       filename \in {f \in listdir(target) :
                                        endswith(f, RPM)}} :
              /\ path \in files
              /\ <<repo, basename(path)>> \notin download_map}
    ELSE {}

\* delete_old_local_packages(): the files the loops reach os.unlink with
old_local_packages(packages_to_download) ==
    LET download_map == {<<pkg.repo, basename(pkg.location)>> :
                            pkg \in Range(packages_to_download)}
    IN  UNION {old_in(repo, repo_target(repo), download_map) :
                  repo \in Range(iter_enabled(enabled))}

\* a loop that the first OSError of an unlink ends
unlinked_until_failure(old, ufail) == IF ufail = {} THEN old ELSE {}

\* delete_old_local_packages(): the files unlinked, of the files old the
\* loops reach os.unlink with, when os.unlink raises OSError on ufail; the
\* except clause logs the failure and the loop goes on
unlinked(old, ufail) == old \ ufail

\* how many unlinks of one deletion the environment fails
MaxUnlinkFail == 1

\* RepoSyncCommand.delete_old_local_packages(pkglist), called at the end of
\* download_packages(repo); an unlink that raises OSError (ufail) is logged
DeleteOldLocalPackages ==
    /\ pc = "run" /\ todo # <<>> /\ stage = "delete"
    /\ \E old \in {old_local_packages(pkglist)} :
       \E ufail \in {u \in SUBSET old : Cardinality(u) <= MaxUnlinkFail} :
           /\ files' = files \ unlinked(old, ufail)
           /\ log' = Append(log, Entry(Head(todo), "delete", NoError, {}, {},
                                       unlinked(old, ufail), files, ufail))
    /\ NextRepo
    /\ UNCHANGED <<opts, sack, comps_fn, conf, enabled, dirs, pkglist, prev, ret>>

\* run() returns
Finish ==
    /\ pc = "run" /\ todo = <<>>
    /\ pc' = "done"
    /\ runs' = runs + 1
    /\ UNCHANGED <<opts, sack, comps_fn, conf, enabled, files, dirs, todo, stage,
                   pkglist, err, log, prev, ret>>

\* how many times the command is run on the tree
MaxRuns == 2

\* the command is started again, with the same command line, on the tree
\* the run before left
Rerun ==
    /\ pc \in {"done", "error"}
    /\ runs < MaxRuns
    /\ pc' = "configure"
    /\ enabled' = conf
    /\ prev' = [files |-> files, pc |-> pc, log |-> log]
    /\ log' = <<>>
    /\ err' = NoError
    /\ todo' = <<>>
    /\ stage' = "none"
    /\ pkglist' = <<>>
    /\ UNCHANGED <<opts, sack, comps_fn, conf, files, dirs, runs, ret>>

NoPrev == [files |-> {}, pc |-> "none", log |-> <<>>]

Init ==
    /\ opts \in RunOpts
    /\ sack \in RunSacks
    \* which repositories publish a comps file is read with --downloadcomps only
    /\ comps_fn \in IF opts.downloadcomps THEN RunComps
                   ELSE {[r \in Range(RepoOrder) |-> FALSE]}
    /\ conf \in RunConfs
    /\ enabled = conf
    /\ \E tree \in RunTrees : files = tree.files /\ dirs = tree.dirs
    /\ pc = "configure"
    /\ todo = <<>>
    /\ stage = "none"
    /\ pkglist = <<>>
    /\ err = NoError
    /\ log = <<>>
    /\ runs = 0
    /\ prev = NoPrev
    /\ ret = NoRet

Next ==
    \/ Configure
    \/ DownloadMetadata
    \/ GetComps
    \/ DownloadPackages
    \/ DeleteOldLocalPackages
    \/ Finish
    \/ Rerun

Spec == Init /\ [][Next]_vars

----------------------------------------------------------------------------
(* pkg_download_path on its own: every location up to a length *)

\* the components a location is made of
LocComps == {<<DOT>>, DOTDOT, <<"a">>, <<"r">>, <<"r", "x">>, <<"w">>}

\* the longest location, in components
MaxLocLen == 3

RECURSIVE LocsOfLen(_)
\* the relative locations of n components
LocsOfLen(n) ==
    IF n = 0 THEN {<<>>}
    ELSE IF n = 1 THEN LocComps
    ELSE {c \o <<SLASH>> \o l : c \in LocComps, l \in LocsOfLen(n - 1)}

\* the locations a package index may publish: relative and absolute
Locations ==
    LET rel == UNION {LocsOfLen(n) : n \in 0..MaxLocLen}
    IN  rel \cup {<<SLASH>> \o l : l \in rel}

PathOpts ==
    {[DefaultOpts EXCEPT !.download_path = p, !.destdir = d] :
        p \in {<<".", "/">>, <<"o">>}, d \in {<<>>, <<"/", "m">>}}

InitPath ==
    /\ opts \in PathOpts
    /\ \E repo \in Range(RepoOrder), location \in Locations :
           sack = {Pkg(1, repo, "a", 1, "x86_64", location, FALSE)}
    /\ comps_fn = [r \in Range(RepoOrder) |-> FALSE]
    /\ conf = [r \in Range(RepoOrder) |-> TRUE]
    /\ enabled = conf
    /\ files = {}
    /\ dirs = {cwd}
    /\ pc = "call"
    /\ todo = <<>>
    /\ stage = "none"
    /\ pkglist = <<>>
    /\ err = NoError
    /\ log = <<>>
    /\ runs = 0
    /\ prev = NoPrev
    /\ ret = NoRet

\* a caller computes the destination of a package of the index
CallPkgDownloadPath ==
    /\ pc = "call"
    /\ \E pkg \in sack :
           ret' = [call |-> "pkg_download_path", pkg |-> pkg,
                   target |-> repo_target(pkg.repo),
                   val |-> pkg_download_path(pkg)]
    /\ pc' = "returned"
    /\ UNCHANGED <<opts, sack, comps_fn, conf, enabled, files, dirs, todo,
                   stage, pkglist, err, log, runs, prev>>

SpecPath == InitPath /\ [][CallPkgDownloadPath]_vars

\* path is a proper descendant of dir in the directory tree
Inside(path, dir) ==
    /\ Len(split(path)) > Len(split(dir))
    /\ SubSeq(split(path), 1, Len(split(dir))) = split(dir)

\* C1 (as claimed): pkg_download_path either raises or returns a path that
\* is strictly inside repo_target(pkg.repo) in the directory tree.
C1_DestinationInsideTarget ==
    ret.call = "pkg_download_path"
        => (ret.val.raised \/ Inside(ret.val.path, ret.target))

----------------------------------------------------------------------------
(* get_pkglist on its own: every index made of a catalogue *)

Foo1 == Pkg(1, R, "foo", 1, "x86_64", <<"a">> \o RPM, FALSE)
Foo2Noarch == Pkg(2, R, "foo", 2, "noarch", <<"b">> \o RPM, FALSE)
Foo2 == Pkg(3, R, "foo", 2, "x86_64", <<"c">> \o RPM, FALSE)
Foo1Src == Pkg(4, R, "foo", 1, "src", <<"d">> \o RPM, FALSE)
Foo2Src == Pkg(5, R, "foo", 2, "src", <<"e">> \o RPM, FALSE)
Foo3X == Pkg(6, RX, "foo", 3, "x86_64", <<"f">> \o RPM, FALSE)
Bar1 == Pkg(7, R, "bar", 1, "noarch", <<"g">> \o RPM, FALSE)
Foo4Installed ==
    Pkg(8, SYSTEM_REPO_NAME, "foo", 4, "x86_64", <<"h">> \o RPM, FALSE)

QueryCatalogue ==
    {Foo1, Foo2Noarch, Foo2, Foo1Src, Foo2Src, Foo3X, Bar1, Foo4Installed}

QueryOpts ==
    {[DefaultOpts EXCEPT !.newest_only = n, !.source = s, !.arches = a] :
        n \in BOOLEAN, s \in BOOLEAN,
        a \in {{}, {"x86_64"}, {"x86_64", "noarch"}}}

InitQuery ==
    /\ opts \in QueryOpts
    /\ sack \in SUBSET QueryCatalogue
    /\ comps_fn = [r \in Range(RepoOrder) |-> FALSE]
    /\ conf = [r \in Range(RepoOrder) |-> TRUE]
    /\ enabled = conf
    /\ files = {}
    /\ dirs = {cwd}
    /\ pc = "call"
    /\ todo = <<>>
    /\ stage = "none"
    /\ pkglist = <<>>
    /\ err = NoError
    /\ log = <<>>
    /\ runs = 0
    /\ prev = NoPrev
    /\ ret = NoRet

\* a caller asks for the package list of a repository
CallGetPkglist ==
    /\ pc = "call"
    /\ \E repo \in Range(RepoOrder) :
           ret' = [call |-> "get_pkglist", repo |-> repo,
                   val |-> get_pkglist(repo)]
    /\ pc' = "returned"
    /\ UNCHANGED <<opts, sack, comps_fn, conf, enabled, files, dirs, todo,
                   stage, pkglist, err, log, runs, prev>>

SpecQuery == InitQuery /\ [][CallGetPkglist]_vars

\* the index publishes, in the repository of pkg, a strictly newer version
\* of the name of pkg, in whatever architecture
NewerOfName(pkg) ==
    \E other \in sack :
        /\ other.repo = pkg.repo
        /\ other.name = pkg.name
        /\ other.evr > pkg.evr

\* the same, in the architecture of pkg
NewerOfNameArch(pkg) ==
    \E other \in sack :
        /\ other.repo = pkg.repo
        /\ other.name = pkg.name
        /\ other.arch = pkg.arch
        /\ other.evr > pkg.evr

\* the call of the filter-order example: the repository publishes
\* foo-1.0.x86_64 and foo-2.0.noarch, with --newest-only --arch x86_64
FilterOrderExample ==
    /\ ret.call = "get_pkglist"
    /\ ret.repo = R
    /\ filter_reponame(sack, R) = {Foo1, Foo2Noarch}
    /\ opts.newest_only
    /\ ~opts.source
    /\ opts.arches = {"x86_64"}

\* C9 (as claimed): with newest-only and an architecture list, no package
\* of the result has a strictly newer version of its name in its
\* repository, whatever the architecture of the newer one; on the example
\* the result is not {foo-1.0.x86_64}.
C9_NewestPerNameBeforeArch ==
    (ret.call = "get_pkglist" /\ opts.newest_only /\ opts.arches # {})
        => /\ \A pkg \in ret.val : ~NewerOfName(pkg)
           /\ FilterOrderExample => ret.val # {Foo1}

\* C9 (amended): with newest-only and an architecture list, no package of
\* the result has a strictly newer version of its name and architecture in
\* its repository; a newer version in an excluded architecture hides
\* nothing: on the example the result is {foo-1.0.x86_64}.
C9_NewestPerNameArch ==
    (ret.call = "get_pkglist" /\ opts.newest_only /\ opts.arches # {})
        => /\ \A pkg \in ret.val : ~NewerOfNameArch(pkg)
           /\ FilterOrderExample => ret.val = {Foo1}

\* the example of C9 has been computed
C9_Witness == FilterOrderExample /\ ret.val = {Foo1}

\* C10: get_pkglist returns exactly the available packages of the
\* repository, the newest of each name and architecture when newest-only
\* is set, of architecture src in source mode (the architecture list
\* ignored), else of a listed architecture when a list is given.
C10_PkglistIsFiltered ==
    ret.call = "get_pkglist"
        => ret.val =
             {pkg \in sack :
                 /\ pkg.repo = ret.repo
                 /\ pkg.repo # SYSTEM_REPO_NAME
                 /\ opts.newest_only => ~NewerOfNameArch(pkg)
                 /\ opts.source => pkg.arch = "src"
                 /\ (~opts.source /\ opts.arches # {})
                        => pkg.arch \in opts.arches}

\* a call where every filter applies: newest-only drops a package, source
\* mode keeps one, and the architecture list names no kept architecture
C10_Witness ==
    /\ ret.call = "get_pkglist"
    /\ opts.newest_only /\ opts.source /\ opts.arches = {"x86_64"}
    /\ {Foo1Src, Foo2Src, Foo2} \subseteq sack
    /\ ret.repo = R
    /\ ret.val = {Foo2Src}

----------------------------------------------------------------------------
(* The runs *)

\* the stages of the current run, as logged
Stages == Range(log)

\* the run is over: run() returned or an exception left it
Ended == pc \in {"done", "error"}

\* the candidate set of a repository: the index and the options are those
\* of the whole run
Candidates(repo) == get_pkglist(repo)

\* the files of e.before that are immediate children of the target
\* directory of e.repo, are named *.rpm, and whose (repo id, filename) pair
\* is not in the candidate set of e.repo
StaleOf(e) ==
    LET keep == {<<pkg.repo, basename(pkg.location)>> :
                    pkg \in Candidates(e.repo)}
    IN  {f \in e.before :
            /\ dirname(f) = repo_target(e.repo)
            /\ endswith(basename(f), RPM)
            /\ <<e.repo, basename(f)>> \notin keep}

\* C2 (as claimed): the deletion stage of a repository deletes exactly its
\* own stale files (those whose unlink the environment failed excepted)
\* and nothing else, so nothing under another repository's directory.
C2_DeletesExactlyOwnStale ==
    \A e \in Stages :
        e.stage = "delete"
            => /\ e.deleted \subseteq StaleOf(e)
               /\ (StaleOf(e) \ e.failed) \subseteq e.deleted

\* the destination of pkg is no proper descendant of its repository's
\* target directory
Escapes(pkg) ==
    ~Inside(normpath(join(repo_target(pkg.repo), pkg.location)),
            repo_target(pkg.repo))

\* C3 (as claimed): when a candidate package of the repository has an
\* escaping location, the package stage (no fetch and no copy of which the
\* environment fails) fails with the path-escape error and has fetched and
\* copied nothing.
C3_EscapeCheckedBeforeAnyWrite ==
    \A e \in Stages :
        (/\ e.stage = "packages"
         /\ e.failed = {}
         /\ \E pkg \in Candidates(e.repo) : Escapes(pkg))
            => /\ e.err = "Error"
               /\ e.fetched = {}
               /\ e.copied = {}

\* the enabled repositories iterated after repo
LaterRepos(repo) ==
    {iter_enabled(enabled)[j] : j \in
        {k \in 1..Len(iter_enabled(enabled)) :
            \E i \in 1..(k - 1) : iter_enabled(enabled)[i] = repo}}

\* the package stage of repo was executed in the current run
PackageStageRan(repo) ==
    \E e \in Stages : e.repo = repo /\ e.stage = "packages"

\* C4 (as claimed): when the run is over and the package stage of a
\* repository failed on a fetch, the package stage of every later enabled
\* repository was executed.
C4_FetchFailureIsLocalToRepo ==
    Ended =>
        \A e \in Stages :
            (e.stage = "packages" /\ e.err = "DownloadError")
                => \A repo \in LaterRepos(e.repo) : PackageStageRan(repo)

\* C5 (as claimed): when the run is over and the metadata or comps stage
\* of a repository failed, the package stage of that repository was
\* executed.
C5_OptionalFailureKeepsPackageStage ==
    Ended =>
        \A e \in Stages :
            (e.stage \in {"metadata", "comps"} /\ e.err # NoError)
                => PackageStageRan(e.repo)

\* the file the package stage puts pkg at
DestFile(pkg) ==
    IF pkg.local THEN local_copy(pkg, pkg_download_path(pkg)).file
    ELSE RPMPayloadLocation(pkg, pkg_download_path(pkg)).file

\* C6 (as claimed): when the copy of a package failed in the local-copy
\* loop, every other package of the local-copy group whose own copy does
\* not fail was copied and is at its destination when the stage ends.
C6_CopyFailureSparesSiblings ==
    \A e \in Stages :
        (e.stage = "packages" /\ e.err = "OSError")
            => \A pkg \in Candidates(e.repo) :
                   (pkg.local /\ pkg \notin e.failed
                        /\ ~pkg_download_path(pkg).raised)
                       => (pkg \in e.copied /\ DestFile(pkg) \in files)

\* C7: no step of the program removes from the tree a file whose name
\* does not end in ".rpm".
C7_NonRpmNeverDeleted ==
    [][\A f \in files : ~endswith(basename(f), RPM) => f \in files']_vars

\* a deletion removed files from a target directory and left the file of
\* that directory that is no *.rpm
C7_Witness ==
    \E e \in Stages :
        /\ e.stage = "delete"
        /\ e.deleted # {}
        /\ \E f \in e.before \cap files :
               /\ dirname(f) = repo_target(e.repo)
               /\ ~endswith(basename(f), RPM)

\* no operation of the stages of a log was failed by the environment
NoFailure(l) == \A i \in 1..Len(l) : l[i].err = NoError /\ l[i].failed = {}

\* C8 (as claimed): when two runs in succession both end without a
\* failure, the second leaves the files the first left, and fetches or
\* copies no package whose file the first run left in place.
C8_SecondRunChangesNothing ==
    (runs >= 2 /\ pc = "done" /\ prev.pc = "done"
        /\ NoFailure(prev.log) /\ NoFailure(log))
        => /\ files = prev.files
           /\ \A e \in Stages :
                  \A pkg \in e.fetched \cup e.copied :
                      DestFile(pkg) \notin prev.files

\* the stages of one repository, from the flags of the command line
StagesOf ==
    (IF opts.download_metadata THEN <<"metadata">> ELSE <<>>)
        \o (IF opts.downloadcomps THEN <<"comps">> ELSE <<>>)
        \o <<"packages">>
        \o (IF opts.delete THEN <<"delete">> ELSE <<>>)

RECURSIVE Schedule(_)
\* the stages of a run over repos: all of the first repository, then all
\* of the next
Schedule(repos) ==
    IF repos = <<>> THEN <<>>
    ELSE [i \in 1..Len(StagesOf) |-> <<Head(repos), StagesOf[i]>>]
             \o Schedule(Tail(repos))

\* the stages executed so far in the current run, in order
Executed == [i \in 1..Len(log) |-> <<log[i].repo, log[i].stage>>]

IsPrefix(s, t) == Len(s) <= Len(t) /\ SubSeq(t, 1, Len(s)) = s

\* C11: the stages executed in a run are, in order, a prefix of the
\* schedule "for each enabled repository in turn: metadata if
\* --download-metadata, comps if --downloadcomps, packages, deletion if
\* --delete"; when run() returns they are the whole schedule, and a run
\* stops short of it only on the exception of the last stage executed.
C11_StagesFollowSchedule ==
    pc \in {"run", "done", "error"} =>
        /\ IsPrefix(Executed, Schedule(iter_enabled(enabled)))
        /\ pc = "done" => Executed = Schedule(iter_enabled(enabled))
        /\ (pc = "error" /\ err # "CliError")
               => (log # <<>> /\ log[Len(log)].err = err)
        /\ \A i \in 1..(Len(log) - 1) : log[i].err = NoError

\* run() returned after all four stages of each of two repositories
C11_Witness ==
    /\ pc = "done"
    /\ Len(iter_enabled(enabled)) = 2
    /\ Len(StagesOf) = 4
    /\ Len(log) = 8

\* an id given with --repo is no configured repository
UnknownRepoNamed ==
    \E i \in 1..Len(opts.repo) : opts.repo[i] \notin DOMAIN conf

\* C12: when an id given with --repo is no configured repository,
\* configure ends the command with the CliError, and no step of the
\* command executes a stage or changes the files and directories of the
\* tree, wherever the unknown id stands in the list.
C12_UnknownRepoAbortsBeforeSync ==
    [][UnknownRepoNamed =>
          /\ pc = "configure" => (pc' = "error" /\ err' = "CliError")
          /\ log' = <<>>
          /\ files' = files
          /\ dirs' = dirs]_vars

\* configure raised on an unknown id that stands first, before a known
\* one, on a tree that holds files
C12_Witness ==
    /\ pc = "error"
    /\ err = "CliError"
    /\ Len(opts.repo) = 2
    /\ opts.repo[1] \notin DOMAIN conf
    /\ opts.repo[2] \in DOMAIN conf
    /\ files # {}

\* the repositories a stage was executed for in the current run
ReposRun == {e.repo : e \in Stages}

\* --repo is given and every id of it is a configured repository
KnownReposNamed == opts.repo # <<>> /\ ~UnknownRepoNamed

\* C13 (as claimed): with --repo and known ids, stages are executed for
\* the named repositories only, and for all of them when run() returns,
\* with or without --source.
C13_OnlyNamedReposRun ==
    KnownReposNamed =>
        /\ ReposRun \subseteq Range(opts.repo)
        /\ pc = "done" => ReposRun = Range(opts.repo)

\* the configured source repositories of the named repositories
SourceReposOfNamed ==
    {r \in DOMAIN conf : \E id \in Range(opts.repo) : source_name(id) = r}

\* C13 (amended): with --repo and known ids, stages are executed for the
\* named repositories and, with --source, for the configured source
\* repositories of the named ones, for no other repository, and for all
\* of these when run() returns.
C13_NamedAndTheirSourceReposRun ==
    LET selected == Range(opts.repo)
                        \cup (IF opts.source THEN SourceReposOfNamed ELSE {})
    IN  KnownReposNamed =>
            /\ ReposRun \subseteq selected
            /\ pc = "done" => ReposRun = selected

\* run() returned from a run with --repo r --source, in which stages
\* were executed for r and for r-source, on a configuration that had rx
\* enabled
C13_Witness ==
    /\ pc = "done"
    /\ opts.repo = <<R>>
    /\ opts.source
    /\ conf[RX]
    /\ ReposRun = {R, RS}

\* C14 (as claimed): when run() returns from a run with --delete over two
\* or more enabled repositories, every package of the candidate set of
\* every enabled repository is at its destination.
C14_SyncedPackagesSurviveRun ==
    (pc = "done" /\ opts.delete /\ Len(iter_enabled(enabled)) >= 2)
        => \A repo \in Range(iter_enabled(enabled)) :
               \A pkg \in Candidates(repo) : DestFile(pkg) \in files

\* the package stage of the last entry of the log failed
PackageStageFailed ==
    /\ log # <<>>
    /\ log[Len(log)].stage = "packages"
    /\ log[Len(log)].err \in {"DownloadError", "Error", "OSError"}

DeletionStep ==
    /\ Len(log') = Len(log) + 1
    /\ log'[Len(log')].stage = "delete"

\* C16: a deletion stage in which unlinks fail deletes every stale file
\* of the repository whose unlink does not fail, leaves the files whose
\* unlink failed, raises nothing, and the run goes on to the next
\* repository.
C16_UnlinkFailureIsSkipped ==
    [][DeletionStep =>
          LET e == log'[Len(log')]
          IN  /\ (StaleOf(e) \ e.failed) \subseteq e.deleted
              /\ files' = files \ e.deleted
              /\ e.failed \subseteq files'
              /\ e.err = NoError
              /\ pc' = "run"
              /\ todo' = Tail(todo)]_vars

\* run() returned from a run in which a deletion stage failed to unlink
\* a file and deleted a stale file of its repository
C16_Witness ==
    /\ pc = "done"
    /\ \E e \in Stages :
           /\ e.stage = "delete"
           /\ e.failed # {}
           /\ StaleOf(e) \cap e.deleted # {}

\* the step executes a package stage
PackagesStep ==
    /\ Len(log') = Len(log) + 1
    /\ log'[Len(log')].stage = "packages"

\* the directory of the destination of pkg
DestDir(pkg) == dirname(pkg_download_path(pkg).path)

\* C17: every package a package stage fetches is written into its own
\* directory dirname(pkg_download_path(pkg)), which exists with its parent
\* when the stage has written the package; two fetched packages of the
\* repository whose locations have different directory parts are in
\* different directories. No file of the tree is ever in a directory
\* that does not exist.
C17_FetchedIntoOwnExistingDir ==
    /\ [][PackagesStep =>
            LET e == log'[Len(log')]
            IN  /\ \A pkg \in e.fetched :
                       /\ ~pkg.local
                       /\ join(DestDir(pkg), basename(pkg.location)) \in files'
                       /\ join(DestDir(pkg), basename(pkg.location)) \notin files
                       /\ DestDir(pkg) \in dirs'
                       /\ dirname(DestDir(pkg)) \in dirs'
                /\ \A p, q \in e.fetched :
                       dirname(p.location) # dirname(q.location)
                           => DestDir(p) # DestDir(q)]_vars
    /\ [](\A f \in files : dirname(f) \in dirs)

\* on a tree that held no file, a package stage fetched a.rpm into the
\* target directory of r and s/b.rpm into its subdirectory s, and both
\* directories are there
C17_Witness ==
    \E e \in Stages :
        /\ e.stage = "packages"
        /\ e.before = {}
        /\ {PkgA, PkgB} \subseteq e.fetched
        /\ DestDir(PkgA) = repo_target(R)
        /\ DestDir(PkgB) = join(repo_target(R), <<"s">>)
        /\ {DestDir(PkgA), DestDir(PkgB)} \subseteq dirs
        /\ {DestFile(PkgA), DestFile(PkgB)} \subseteq files

====
